---- MODULE Spec2Model ----
(***************************************************************************)
(* A model of rust-todo-tui (src/src/main.rs): the checkbox-line codec     *)
(* (Item::to_string / Item::from_str), the day-file store (write_items /   *)
(* read_items) and the interactive session of tui().                       *)
(*                                                                         *)
(* A Rust String is modelled as a sequence of characters, each character a *)
(* one-character TLA+ string; ByteWidth gives its UTF-8 width, because     *)
(* from_str slices by byte offset.  An Option<usize> is <<>> (None) or     *)
(* <<i>> (Some(i)).                                                        *)
(***************************************************************************)
EXTENDS Integers, Sequences, FiniteSets, TLC

VARIABLES
    pc,            \* position of tui(): "load", "setup", "loop", "teardown", "exit"
    result,        \* how tui() ended: "none" while it runs, "ok", "panic", or the Err
                   \* of the `?` that returned: "load", "setup", "io", "restore"
    raw_mode,      \* terminal raw mode is enabled
    alt_screen,    \* the alternate screen is entered
    mouse_capture, \* mouse capture is enabled
    input_mode,    \* InputMode: "Normal" or "Insert"
    input_text,    \* the text typed in Insert mode
    day_offset,    \* signed day offset, 0 = today
    day_path,      \* the bound day-file, named by the day it was computed for
    items,         \* the in-memory Vec<Item>
    selected,      \* items_state.selected(): <<>> or <<i>>
    key,           \* the last key event the loop dispatched, "none" before the first
    events,        \* how many key events event::read() has returned
    files,         \* the day-files on disk: day -> [exists, data]
    habits,        \* config.habits
    date_format,   \* config.date_format
    stdout_buffer, \* the command a failed execute() left in the buffer of stdout
    today,         \* the calendar day chrono::Utc::now() falls on
    arg,           \* store/codec harness: the input of the call
    ret            \* store/codec harness: what the call returned

vars == <<pc, result, raw_mode, alt_screen, mouse_capture, input_mode, input_text,
          day_offset, day_path, items, selected, key, events, files,
          habits, date_format, stdout_buffer, today,
          arg, ret>>

session_vars == <<pc, result, raw_mode, alt_screen, mouse_capture, input_mode,
                  input_text, day_offset, day_path, items, selected, key, events,
                  files, habits, date_format, stdout_buffer, today>>

----------------------------------------------------------------------------
(* Bounds of the model. *)

\* most key events a session reads before the model stops following it
MaxKeys == 4
\* longest tail appended to a sample line given to from_str
MaxTail == 1
\* most lines of a sample file given to read_items
MaxLines == 2
\* longest text of an item given to to_string and write_items by the harness
MaxItemText == 1
\* longest item list given to write_items by the harness
MaxSaved == 2

----------------------------------------------------------------------------
(* Strings. *)

LF == "\n"
CR == "\r"

\* to_string's and from_str's markers, as characters.
MarkOpen == <<"-", " ", "[", " ", "]">>
MarkDone == <<"-", " ", "[", "x", "]">>

\* UTF-8 width of a character: "é" stands for any two-byte character.
ByteWidth(c) == IF c = "é" THEN 2 ELSE 1

RECURSIVE ByteLen(_)
\* str::len(): the length in bytes.
ByteLen(s) == IF s = <<>> THEN 0 ELSE ByteWidth(Head(s)) + ByteLen(Tail(s))

\* str::starts_with.
StartsWith(s, p) == Len(s) >= Len(p) /\ SubSeq(s, 1, Len(p)) = p

\* str::is_char_boundary(n): n is the byte offset of a character or the end.
IsCharBoundary(s, n) == \E k \in 0..Len(s) : ByteLen(SubSeq(s, 1, k)) = n

\* &s[n..] for a byte offset n that is a character boundary.
SliceFrom(s, n) ==
    LET k == CHOOSE j \in 0..Len(s) : ByteLen(SubSeq(s, 1, j)) = n
    IN  SubSeq(s, k + 1, Len(s))

----------------------------------------------------------------------------
(* Item. *)

\* struct Item.
Item(text, completed) == [text |-> text, completed |-> completed]

\* A faulty Item::new: the new item is completed.
Item_new_completed(text) == Item(text, TRUE)

\* Item::new.
Item_new(text) == Item(text, FALSE)

\* A faulty toggle: the item is marked completed whatever it was.
toggle_completes(item) == Item(item.text, TRUE)

\* Item::toggle.
toggle(item) == Item(item.text, ~item.completed)

\* A faulty to_string: the marker and the text are not separated.
to_string_no_space(item) ==
    (IF item.completed THEN MarkDone ELSE MarkOpen) \o item.text

\* Item::to_string: format!("{} {}", status, self.text).
to_string(item) ==
    (IF item.completed THEN MarkDone ELSE MarkOpen) \o <<" ">> \o item.text

\* The three outcomes of from_str: Ok(item), Err (bail!), or a panic of the slice.
Ok(item) == [tag |-> "Ok", item |-> item]
Err == [tag |-> "Err", item |-> Item_new(<<>>)]
Panic == [tag |-> "Panic", item |-> Item_new(<<>>)]

\* The byte offset at which from_str takes the text.
TextOffset == 6

\* Item::from_str.
from_str(s) ==
    IF ~StartsWith(s, MarkOpen) /\ ~StartsWith(s, MarkDone)
    THEN Err
    ELSE IF ~IsCharBoundary(s, TextOffset)
         THEN Panic
         ELSE Ok(Item(SliceFrom(s, TextOffset), SubSeq(s, 1, 5) = MarkDone))

----------------------------------------------------------------------------
(* Day-file store. *)

RECURSIVE Join(_)
\* [String]::join("\n").
Join(ls) ==
    IF ls = <<>> THEN <<>>
    ELSE IF Len(ls) = 1 THEN ls[1]
    ELSE ls[1] \o <<LF>> \o Join(Tail(ls))

\* strip_suffix('\r') of a line that ended in '\n'.
StripCR(l) == IF l # <<>> /\ l[Len(l)] = CR THEN SubSeq(l, 1, Len(l) - 1) ELSE l

RECURSIVE Lines(_)
\* str::lines(): split after every "\n"; a piece that ends in "\n" loses it and
\* then a "\r" before it; a last piece without "\n" is kept as it is.
Lines(data) ==
    IF data = <<>> THEN <<>>
    ELSE IF \E i \in 1..Len(data) : data[i] = LF
         THEN LET i == CHOOSE j \in 1..Len(data) :
                           data[j] = LF /\ \A m \in 1..(j - 1) : data[m] # LF
              IN  <<StripCR(SubSeq(data, 1, i - 1))>>
                      \o Lines(SubSeq(data, i + 1, Len(data)))
         ELSE <<data>>

\* A path on disk: absent, or a file with its content.
NoFile == [exists |-> FALSE, data |-> <<>>]
File(data) == [exists |-> TRUE, data |-> data]

\* A faulty write_items: only the first item is written.
write_items_first(its) == File(IF its = <<>> THEN <<>> ELSE to_string(its[1]))

\* write_items: the content fs::write leaves in the file.
write_items(its) == File(Join([i \in 1..Len(its) |-> to_string(its[i])]))

RECURSIVE ParsedItems(_)
\* data.lines().filter_map(|line| line.parse::<Item>().ok()) over the lines.
ParsedItems(ls) ==
    IF ls = <<>> THEN <<>>
    ELSE LET r == from_str(Head(ls))
         IN  (IF r.tag = "Ok" THEN <<r.item>> ELSE <<>>) \o ParsedItems(Tail(ls))

\* A faulty DefaultItems: the defaults are added whether or not the path exists.
DefaultItems_always(file, default_items) ==
    [i \in 1..Len(default_items) |-> Item_new(default_items[i])]

\* A faulty DefaultItems: the defaults are added when the file holds nothing.
DefaultItems_when_empty(file, default_items) ==
    IF file.data = <<>>
    THEN [i \in 1..Len(default_items) |-> Item_new(default_items[i])]
    ELSE <<>>

\* The default items read_items starts from when the path does not exist.
DefaultItems(file, default_items) ==
    IF ~file.exists
    THEN [i \in 1..Len(default_items) |-> Item_new(default_items[i])]
    ELSE <<>>

\* read_items on a path in state `file`: the outcome ("Ok" or "Panic"), the items
\* returned and the state the path is left in (OpenOptions::create makes it).
read_items(file, default_items) ==
    LET ls == Lines(file.data)
        after == File(file.data)
    IN  IF \E i \in 1..Len(ls) : from_str(ls[i]).tag = "Panic"
        THEN [tag |-> "Panic", items |-> <<>>, file |-> after]
        ELSE [tag |-> "Ok",
              items |-> DefaultItems(file, default_items) \o ParsedItems(ls),
              file |-> after]

----------------------------------------------------------------------------
(* The interactive session: tui(). *)

None == <<>>
Some(i) == <<i>>

\* How many times the calendar date changes while a session runs.
MaxMidnights == 1

\* The days whose files a session of MaxKeys keys can bind, relative to its first.
Days == (0 - MaxKeys)..(MaxKeys + MaxMidnights)

\* The date formats of the configuration: the default, which names every day
\* differently (config.rs:25-27), the year alone, and a specifier chrono does not
\* know.
DateFormats == {"%Y-%m-%d", "%Y", "%Q"}

\* Day 0 is the day the session starts on, taken as 2026-10-31: its year, the
\* days from 0000-03-01 to it, and the last and the first day date() can reach,
\* counted from it.
YearZero == 2026
DayZero == 740225
LastDay == 95005479
FirstDay == -96486049

\* The year of the Gregorian calendar the day falls in, counted from the year of
\* day 0: eras of 400 years of 146097 days, years from March to February.
YearOf(day) ==
    LET z == day + DayZero
        era == z \div 146097
        doe == z - era * 146097
        yoe == (doe - (doe \div 1460) + (doe \div 36524) - (doe \div 146096)) \div 365
        doy == doe - (365 * yoe + (yoe \div 4) - (yoe \div 100))
        mp == (5 * doy + 2) \div 153
    IN  yoe + era * 400 + (IF mp >= 10 THEN 1 ELSE 0) - YearZero

\* What date() returns: the name, or a panic.
Named(name) == [tag |-> "Ok", name |-> name]
DatePanic == [tag |-> "Panic", name |-> 0]

\* date(offset, format): the day `offset` days from now, formatted.  checked_add_days
\* and checked_sub_days return None outside the range of dates and the expect
\* panics; to_string panics on a format chrono does not know.  The name is a
\* number: the day for the default format, the year for "%Y"; the path built from
\* the name is the same number.
date(offset, format) ==
    IF today + offset > LastDay \/ today + offset < FirstDay THEN DatePanic
    ELSE IF format = "%Q" THEN DatePanic
    ELSE IF format = "%Y" THEN Named(YearOf(today + offset))
    ELSE Named(today + offset)

\* The characters typed in Insert mode; both are commands of Normal mode.
TypedChars == {"a", "q"}

\* The files today and yesterday may have when the session starts: none, an empty
\* one, one item, three items, and a line cut to the bare marker.
InitialFiles ==
    { NoFile,
      File(<<>>),
      File(MarkDone \o <<" ", "a", LF>>),
      File(MarkOpen \o <<" ", "a", LF>> \o MarkDone \o <<" ", "a", LF>>
               \o MarkOpen \o <<" ">>),
      File(MarkOpen) }

\* The habit lists of the configuration: none, one habit, two habits, and two
\* habits of which the first ends with a carriage return.
HabitLists ==
    { <<>>,
      << <<"a">> >>,
      << <<"s">>, <<"r">> >>,
      << <<"a", CR>>, <<"a">> >> }

\* A key event: its KeyCode and the InputMode it was dispatched in.
Key(mode, code) == <<mode, code>>

\* Leaving tui() with `r`: Ok(()) after the loop, an Err of `?`, or a panic.
Return(r) == pc' = "exit" /\ result' = r

\* execute(command) writes the command into the buffer of stdout and flushes it;
\* when the flush fails the command stays in the buffer.
NoCommand == "none"

\* Lines 184-188: the locals of tui() before the first read_items, or tui() left
\* by the panic of date() in line 187.  Yesterday has a file only when the format
\* names the days.
SessionInit ==
    /\ today = 0
    /\ date_format \in DateFormats
    /\ IF date(0, date_format).tag = "Panic"
       THEN pc = "exit" /\ result = "panic"
       ELSE pc = "load" /\ result = "none"
    /\ raw_mode = FALSE
    /\ alt_screen = FALSE
    /\ mouse_capture = FALSE
    /\ stdout_buffer = NoCommand
    /\ input_mode = "Normal"
    /\ input_text = <<>>
    /\ day_offset = 0
    /\ day_path = date(0, date_format).name
    /\ items = <<>>
    /\ selected = None
    /\ key = Key("Normal", "none")
    /\ events = 0
    /\ \E f0, f1 \in InitialFiles :
         /\ date_format # "%Y-%m-%d" => f1 = NoFile
         /\ files = [d \in Days |->
                        IF d = 0 THEN f0 ELSE IF d = -1 THEN f1 ELSE NoFile]
    /\ habits \in HabitLists

\* The outcome of read_items in the session: the open fails (nothing changes), the
\* read fails (the file was created), a line makes from_str panic, or items return.
LoadOutcome(disk, path, io) ==
    IF io = "open" THEN [tag |-> "Err", items |-> <<>>, file |-> disk[path]]
    ELSE IF io = "read"
         THEN [tag |-> "Err", items |-> <<>>, file |-> File(disk[path].data)]
         ELSE read_items(disk[path], habits)

IoOutcomes == {"ok", "open", "read"}

\* Line 189: let mut items = read_items(&day_path, &config.habits)?
InitialLoad ==
    /\ pc = "load"
    /\ \E io \in IoOutcomes :
         LET r == LoadOutcome(files, day_path, io)
         IN  /\ files' = [files EXCEPT ![day_path] = r.file]
             /\ IF r.tag = "Ok"
                THEN /\ items' = r.items
                     /\ pc' = "setup"
                     /\ result' = result
                ELSE /\ items' = items
                     /\ Return(IF r.tag = "Panic" THEN "panic" ELSE "load")
    /\ UNCHANGED <<events, raw_mode, alt_screen, mouse_capture, input_mode, input_text,
                   day_offset, day_path, selected, key,
                   habits, date_format, stdout_buffer, today, arg, ret>>

\* Lines 192-195: enable_raw_mode, EnterAlternateScreen, EnableMouseCapture,
\* Terminal::new, each returning early with `?` when it fails.
Setup ==
    /\ pc = "setup"
    /\ \E fail \in {"none", "raw", "alt", "mouse", "terminal"} :
         /\ raw_mode' = (fail # "raw")
         /\ alt_screen' = (fail \notin {"raw", "alt"})
         /\ mouse_capture' = (fail \notin {"raw", "alt", "mouse"})
         /\ stdout_buffer' = (IF fail = "alt" THEN "EnterAlternateScreen"
                              ELSE IF fail = "mouse" THEN "EnableMouseCapture"
                              ELSE NoCommand)
         /\ IF fail = "none"
            THEN pc' = "loop" /\ result' = result
            ELSE Return("setup")
    /\ UNCHANGED <<events, input_mode, input_text, day_offset, day_path, items,
                   selected, key, files, habits, date_format, today, arg, ret>>

\* Lines 198-278: terminal.draw, event::poll or event::read fails and `?` returns.
LoopFails ==
    /\ pc = "loop"
    /\ Return("io")
    /\ UNCHANGED <<events, raw_mode, alt_screen, mouse_capture, input_mode, input_text,
                   day_offset, day_path, items, selected, key, files,
                   habits, date_format, stdout_buffer,
                   today, arg, ret>>

\* Lines 277-280, 357: event::poll and event::read return a key event, which is
\* dispatched in `mode`.  A poll that times out and an event that is no key change
\* nothing and are stuttering steps.
Dispatch(mode, code) ==
    /\ pc = "loop"
    /\ input_mode = mode
    /\ events < MaxKeys
    /\ events' = events + 1
    /\ key' = Key(mode, code)

\* write_items(&items, &day_path)? of the list `its`: the disk after it succeeded.
Flushed(its) == [files EXCEPT ![day_path] = write_items(its)]

\* The outcomes of fs::write of the list `its`: it succeeds, File::create fails,
\* or write_all fails after File::create truncated the file and k characters of
\* the content were written, k less than its length (the texts of a session are
\* one byte a character).
WriteOutcomes(its) ==
    {<<"ok">>, <<"open">>}
        \cup {<<"write", k>> : k \in 0..(Len(write_items(its).data) - 1)}

\* fs::write fails with the outcome `wr`.
WriteFails(wr) == wr[1] # "ok"

\* The disk after fs::write of the list `its` failed with the outcome `wr`: as it
\* was when File::create failed, the bound file holding what was written when
\* write_all failed.
WriteFailed(its, wr) ==
    IF wr[1] = "open" THEN files
    ELSE [files EXCEPT
            ![day_path] = File(SubSeq(write_items(its).data, 1, wr[2]))]

\* Lines 281-284: q.
KeyQuit ==
    /\ Dispatch("Normal", "q")
    /\ \E wr \in WriteOutcomes(items) :
         IF WriteFails(wr)
         THEN /\ files' = WriteFailed(items, wr)
              /\ Return("io")
         ELSE /\ files' = Flushed(items)
              /\ pc' = "teardown"
              /\ result' = result
    /\ UNCHANGED <<raw_mode, alt_screen, mouse_capture, input_mode, input_text,
                   day_offset, day_path, items, selected,
                   habits, date_format, stdout_buffer, today, arg, ret>>

\* Lines 378-380: disable_raw_mode, LeaveAlternateScreen, DisableMouseCapture.
Teardown ==
    /\ pc = "teardown"
    /\ \E fail \in {"none", "raw", "alt", "mouse"} :
         /\ raw_mode' = (fail = "raw")
         /\ alt_screen' = (fail \in {"raw", "alt"})
         /\ mouse_capture' = (fail # "none")
         /\ stdout_buffer' = (IF fail = "alt" THEN "LeaveAlternateScreen"
                              ELSE IF fail = "mouse" THEN "DisableMouseCapture"
                              ELSE NoCommand)
         /\ Return(IF fail = "none" THEN "ok" ELSE "restore")
    /\ UNCHANGED <<events, input_mode, input_text, day_offset, day_path, items,
                   selected, key, files, habits, date_format, today, arg, ret>>

\* Lines 151, 192-195, 378-380: after tui() returned to main, the process ends and
\* the runtime flushes stdout; a command a failed execute() left in the buffer
\* reaches the terminal when this flush succeeds, and is lost when it fails.
ExitFlush ==
    /\ pc = "exit"
    /\ stdout_buffer # NoCommand
    /\ \E flushed \in BOOLEAN :
         /\ alt_screen' =
              (IF flushed /\ stdout_buffer = "EnterAlternateScreen" THEN TRUE
               ELSE IF flushed /\ stdout_buffer = "LeaveAlternateScreen" THEN FALSE
               ELSE alt_screen)
         /\ mouse_capture' =
              (IF flushed /\ stdout_buffer = "EnableMouseCapture" THEN TRUE
               ELSE IF flushed /\ stdout_buffer = "DisableMouseCapture" THEN FALSE
               ELSE mouse_capture)
    /\ stdout_buffer' = NoCommand
    /\ UNCHANGED <<pc, result, raw_mode, events, input_mode, input_text, day_offset,
                   day_path, items, selected, key, files, habits, date_format,
                   today, arg, ret>>

\* A faulty ChangeDay: the flush comes after the path is recomputed, so the list
\* of the day left is written to the file of the day entered.
ChangeDay_late_flush(offset) ==
    \E wr \in WriteOutcomes(items), io \in IoOutcomes :
        IF WriteFails(wr)
        THEN /\ Return("io")
             /\ files' = WriteFailed(items, wr)
             /\ UNCHANGED <<day_offset, day_path, items, selected>>
        ELSE IF date(offset, date_format).tag = "Panic"
        THEN /\ Return("panic")
             /\ files' = Flushed(items)
             /\ day_offset' = offset
             /\ UNCHANGED <<day_path, items, selected>>
        ELSE LET path == date(offset, date_format).name
                 disk == [files EXCEPT ![path] = write_items(items)]
                 r == LoadOutcome(disk, path, io)
             IN  /\ day_offset' = offset
                 /\ day_path' = path
                 /\ files' = [disk EXCEPT ![path] = r.file]
                 /\ IF r.tag = "Ok"
                    THEN /\ items' = r.items
                         /\ selected' = None
                         /\ UNCHANGED <<pc, result>>
                    ELSE /\ UNCHANGED <<items, selected>>
                         /\ Return(IF r.tag = "Panic" THEN "panic" ELSE "io")

\* A faulty ChangeDay: the list state is not reset after the reload.
ChangeDay_keeps_selection(offset) ==
    \E wr \in WriteOutcomes(items), io \in IoOutcomes :
        IF WriteFails(wr)
        THEN /\ Return("io")
             /\ files' = WriteFailed(items, wr)
             /\ UNCHANGED <<day_offset, day_path, items, selected>>
        ELSE IF date(offset, date_format).tag = "Panic"
        THEN /\ Return("panic")
             /\ files' = Flushed(items)
             /\ day_offset' = offset
             /\ UNCHANGED <<day_path, items, selected>>
        ELSE LET path == date(offset, date_format).name
                 disk == Flushed(items)
                 r == LoadOutcome(disk, path, io)
             IN  /\ day_offset' = offset
                 /\ day_path' = path
                 /\ files' = [disk EXCEPT ![path] = r.file]
                 /\ selected' = selected
                 /\ IF r.tag = "Ok"
                    THEN /\ items' = r.items
                         /\ UNCHANGED <<pc, result>>
                    ELSE /\ items' = items
                         /\ Return(IF r.tag = "Panic" THEN "panic" ELSE "io")

\* The body shared by t, h and l: flush, set day_offset, recompute the name and the
\* path, reload, reset the list state.
ChangeDay(offset) ==
    \E wr \in WriteOutcomes(items), io \in IoOutcomes :
        IF WriteFails(wr)
        THEN /\ Return("io")
             /\ files' = WriteFailed(items, wr)
             /\ UNCHANGED <<day_offset, day_path, items, selected>>
        ELSE IF date(offset, date_format).tag = "Panic"
        THEN /\ Return("panic")
             /\ files' = Flushed(items)
             /\ day_offset' = offset
             /\ UNCHANGED <<day_path, items, selected>>
        ELSE LET path == date(offset, date_format).name
                 disk == Flushed(items)
                 r == LoadOutcome(disk, path, io)
             IN  /\ day_offset' = offset
                 /\ day_path' = path
                 /\ files' = [disk EXCEPT ![path] = r.file]
                 /\ IF r.tag = "Ok"
                    THEN /\ items' = r.items
                         /\ selected' = None
                         /\ UNCHANGED <<pc, result>>
                    ELSE /\ UNCHANGED <<items, selected>>
                         /\ Return(IF r.tag = "Panic" THEN "panic" ELSE "io")

\* Lines 285-293: t.
KeyToday ==
    /\ Dispatch("Normal", "t")
    /\ ChangeDay(0)
    /\ UNCHANGED <<raw_mode, alt_screen, mouse_capture, input_mode, input_text,
                   habits, date_format, stdout_buffer, today, arg, ret>>

\* Lines 294-302: h.
KeyPrevDay ==
    /\ Dispatch("Normal", "h")
    /\ ChangeDay(day_offset - 1)
    /\ UNCHANGED <<raw_mode, alt_screen, mouse_capture, input_mode, input_text,
                   habits, date_format, stdout_buffer, today, arg, ret>>

\* Lines 303-311: l.
KeyNextDay ==
    /\ Dispatch("Normal", "l")
    /\ ChangeDay(day_offset + 1)
    /\ UNCHANGED <<raw_mode, alt_screen, mouse_capture, input_mode, input_text,
                   habits, date_format, stdout_buffer, today, arg, ret>>

\* A faulty SelectDown: the selection stops at the last item.
SelectDown_stops(its, sel) ==
    IF Len(its) > 0
    THEN IF sel # None
         THEN Some(IF sel[1] + 1 < Len(its) THEN sel[1] + 1 ELSE sel[1])
         ELSE Some(0)
    ELSE sel

\* Lines 313-320: the selection j makes on the list `its` when it was `sel`.
SelectDown(its, sel) ==
    IF Len(its) > 0
    THEN IF sel # None
         THEN Some((sel[1] + 1) % Len(its))
         ELSE Some(0)
    ELSE sel

\* Lines 323-330: the selection k makes on the list `its` when it was `sel`.
SelectUp(its, sel) ==
    IF Len(its) > 0
    THEN IF sel # None
         THEN Some((sel[1] + Len(its) - 1) % Len(its))
         ELSE Some(Len(its) - 1)
    ELSE sel

\* Lines 312-321: j.
KeyDown ==
    /\ Dispatch("Normal", "j")
    /\ selected' = SelectDown(items, selected)
    /\ UNCHANGED <<pc, result, raw_mode, alt_screen, mouse_capture, input_mode,
                   input_text, day_offset, day_path, items, files,
                   habits, date_format, stdout_buffer, today,
                   arg, ret>>

\* Lines 322-331: k.
KeyUp ==
    /\ Dispatch("Normal", "k")
    /\ selected' = SelectUp(items, selected)
    /\ UNCHANGED <<pc, result, raw_mode, alt_screen, mouse_capture, input_mode,
                   input_text, day_offset, day_path, items, files,
                   habits, date_format, stdout_buffer, today,
                   arg, ret>>

\* A faulty Flush: the handler does not write the list.
Flush_skipped(its) == files' = files /\ UNCHANGED <<pc, result>>

\* A handler's trailing write_items(&items, &day_path)? of the list `its`.
Flush(its) ==
    \E wr \in WriteOutcomes(its) :
        IF WriteFails(wr)
        THEN files' = WriteFailed(its, wr) /\ Return("io")
        ELSE files' = Flushed(its) /\ UNCHANGED <<pc, result>>

\* Lines 332-338: x.
KeyToggle ==
    /\ Dispatch("Normal", "x")
    /\ items' = IF selected # None
                THEN [items EXCEPT ![selected[1] + 1] = toggle(@)]
                ELSE items
    /\ Flush(items')
    /\ UNCHANGED <<raw_mode, alt_screen, mouse_capture, input_mode, input_text,
                   day_offset, day_path, selected,
                   habits, date_format, stdout_buffer, today, arg, ret>>

\* Lines 339-341: a.
KeyAdd ==
    /\ Dispatch("Normal", "a")
    /\ input_mode' = "Insert"
    /\ UNCHANGED <<pc, result, raw_mode, alt_screen, mouse_capture, input_text,
                   day_offset, day_path, items, selected, files,
                   habits, date_format, stdout_buffer, today,
                   arg, ret>>

\* A faulty Remove: the last item is removed, whatever the index.
Remove_last(its, i) == SubSeq(its, 1, Len(its) - 1)

\* Vec::remove(i), i counted from 0.
Remove(its, i) == SubSeq(its, 1, i) \o SubSeq(its, i + 2, Len(its))

\* Lines 346-350: the selection after items.remove(i) left the list `its`.
SelectAfterRemove(its, i) ==
    IF Len(its) = 0 THEN None ELSE Some((i + Len(its) - 1) % Len(its))

\* Lines 342-354: d.
KeyDelete ==
    /\ Dispatch("Normal", "d")
    /\ IF selected # None
       THEN /\ items' = Remove(items, selected[1])
            /\ selected' = SelectAfterRemove(items', selected[1])
       ELSE UNCHANGED <<items, selected>>
    /\ Flush(items')
    /\ UNCHANGED <<raw_mode, alt_screen, mouse_capture, input_mode, input_text,
                   day_offset, day_path, habits, date_format, stdout_buffer, today,
                   arg, ret>>

\* Line 355 and line 371: any other key.
KeyOther ==
    /\ \E mode \in {"Normal", "Insert"} : Dispatch(mode, "other")
    /\ UNCHANGED <<pc, result, raw_mode, alt_screen, mouse_capture, input_mode,
                   input_text, day_offset, day_path, items, selected, files,
                   habits, date_format, stdout_buffer,
                   today, arg, ret>>

\* Lines 358-363: Enter.
InsertEnter ==
    /\ Dispatch("Insert", "Enter")
    /\ items' = Append(items, Item_new(input_text))
    /\ input_text' = <<>>
    /\ input_mode' = "Normal"
    /\ Flush(items')
    /\ UNCHANGED <<raw_mode, alt_screen, mouse_capture, day_offset, day_path,
                   selected, habits, date_format, stdout_buffer, today, arg, ret>>

\* A faulty InsertChar: q ends the loop in Insert mode as it does in Normal mode.
InsertChar_quits ==
    /\ \E c \in TypedChars :
         /\ Dispatch("Insert", c)
         /\ input_text' = Append(input_text, c)
         /\ pc' = IF c = "q" THEN "teardown" ELSE pc
    /\ UNCHANGED <<result, raw_mode, alt_screen, mouse_capture, input_mode,
                   day_offset, day_path, items, selected, files,
                   habits, date_format, stdout_buffer, today,
                   arg, ret>>

\* Line 364: Char(c).
InsertChar ==
    /\ \E c \in TypedChars :
         /\ Dispatch("Insert", c)
         /\ input_text' = Append(input_text, c)
    /\ UNCHANGED <<pc, result, raw_mode, alt_screen, mouse_capture, input_mode,
                   day_offset, day_path, items, selected, files,
                   habits, date_format, stdout_buffer, today,
                   arg, ret>>

\* Lines 365-367: Backspace.
InsertBackspace ==
    /\ Dispatch("Insert", "Backspace")
    /\ input_text' = IF input_text = <<>> THEN <<>>
                     ELSE SubSeq(input_text, 1, Len(input_text) - 1)
    /\ UNCHANGED <<pc, result, raw_mode, alt_screen, mouse_capture, input_mode,
                   day_offset, day_path, items, selected, files,
                   habits, date_format, stdout_buffer, today,
                   arg, ret>>

\* Lines 368-370: Esc.
InsertEsc ==
    /\ Dispatch("Insert", "Esc")
    /\ input_mode' = "Normal"
    /\ UNCHANGED <<pc, result, raw_mode, alt_screen, mouse_capture, input_text,
                   day_offset, day_path, items, selected, files,
                   habits, date_format, stdout_buffer, today,
                   arg, ret>>

----------------------------------------------------------------------------
(* The harness of the codec and the store: one call on an input drawn in Init. *)

\* All sequences over S of length at most n.
SeqsUpTo(S, n) == UNION { [1..k -> S] : k \in 0..n }

\* Beginnings of the lines given to from_str: both markers with and without the
\* separating space, with another character in its place, cut short, in the wrong
\* case, indented, and no marker at all.
SampleHeads ==
    { <<>>,
      <<"a">>,
      <<"-">>,
      <<"-", " ", "[", " ">>,
      MarkOpen,
      MarkDone,
      MarkOpen \o <<" ">>,
      MarkDone \o <<" ">>,
      MarkOpen \o <<"a">>,
      MarkDone \o <<"a">>,
      MarkOpen \o <<"é">>,
      <<"-", " ", "[", "X", "]", " ">>,
      <<" ">> \o MarkOpen \o <<" ">> }

TailChars == {"a", " ", "é"}

SampleLines == { h \o t : h \in SampleHeads, t \in SeqsUpTo(TailChars, MaxTail) }

\* The characters of the texts of the items given to to_string.
ItemChars == {"a", " ", "-", "é", CR, LF}

SampleItems ==
    { Item(t, c) : t \in SeqsUpTo(ItemChars, MaxItemText + 1), c \in BOOLEAN }

\* The characters of the texts of the items given to write_items.
SavedChars == {"a", CR, LF}

SampleLists ==
    SeqsUpTo({ Item(t, c) : t \in SeqsUpTo(SavedChars, MaxItemText), c \in BOOLEAN },
             MaxSaved)

\* The lines of the files given to read_items: two items, a marker without text
\* or space, a line that is no item, a blank line.
FileLines ==
    { MarkOpen \o <<" ", "a">>,
      MarkDone \o <<" ">>,
      MarkOpen,
      <<"a">>,
      <<>> }

\* How a file ends: after its last line, with a newline, or with CR LF.
LineEnds == { <<>>, <<LF>>, <<CR, LF>> }

SampleFiles ==
    {NoFile} \cup
    { File(Join(ls) \o e) : ls \in SeqsUpTo(FileLines, MaxLines), e \in LineEnds }

SampleDefaults == { <<>>, << <<"h">> >>, << <<"h">>, <<"g">> >> }

NoArg ==
    [op |-> "none", line |-> <<>>, item |-> Item_new(<<>>), items |-> <<>>,
     file |-> NoFile, defaults |-> <<>>]

Args ==
    { [NoArg EXCEPT !.op = "from_str", !.line = l] : l \in SampleLines }
    \cup { [NoArg EXCEPT !.op = "round_trip", !.item = i] : i \in SampleItems }
    \cup { [NoArg EXCEPT !.op = "read_items", !.file = f, !.defaults = d] :
               f \in SampleFiles, d \in SampleDefaults }
    \cup { [NoArg EXCEPT !.op = "write_read", !.items = l, !.defaults = d] :
               l \in SampleLists, d \in SampleDefaults }

NotCalled == [tag |-> "none"]

\* s.parse::<Item>() on the line.
CallFromStr ==
    /\ arg.op = "from_str"
    /\ ret.tag = "none"
    /\ ret' = from_str(arg.line)
    /\ UNCHANGED <<session_vars, arg>>

\* item.to_string().parse::<Item>().
CallRoundTrip ==
    /\ arg.op = "round_trip"
    /\ ret.tag = "none"
    /\ ret' = from_str(to_string(arg.item))
    /\ UNCHANGED <<session_vars, arg>>

\* read_items(path, defaults) with the path in state arg.file.
CallReadItems ==
    /\ arg.op = "read_items"
    /\ ret.tag = "none"
    /\ ret' = read_items(arg.file, arg.defaults)
    /\ UNCHANGED <<session_vars, arg>>

\* write_items(items, path) and then read_items(path, defaults).
CallWriteRead ==
    /\ arg.op = "write_read"
    /\ ret.tag = "none"
    /\ ret' = read_items(write_items(arg.items), arg.defaults)
    /\ UNCHANGED <<session_vars, arg>>

StoreInit ==
    /\ pc = "exit"
    /\ result = "none"
    /\ raw_mode = FALSE
    /\ alt_screen = FALSE
    /\ mouse_capture = FALSE
    /\ stdout_buffer = NoCommand
    /\ input_mode = "Normal"
    /\ input_text = <<>>
    /\ day_offset = 0
    /\ today = 0
    /\ day_path = 0
    /\ items = <<>>
    /\ selected = None
    /\ key = Key("Normal", "none")
    /\ events = 0
    /\ files = [d \in Days |-> NoFile]
    /\ habits = <<>>
    /\ date_format = "%Y-%m-%d"
    /\ arg \in Args
    /\ ret = NotCalled

StoreNext ==
    \/ CallFromStr
    \/ CallRoundTrip
    \/ CallReadItems
    \/ CallWriteRead

StoreSpec == StoreInit /\ [][StoreNext]_vars

----------------------------------------------------------------------------
(* The session. *)

Init ==
    /\ SessionInit
    /\ arg = NoArg
    /\ ret = NotCalled

Next ==
    \/ InitialLoad
    \/ Setup
    \/ LoopFails
    \/ KeyQuit
    \/ Teardown
    \/ ExitFlush
    \/ KeyToday
    \/ KeyPrevDay
    \/ KeyNextDay
    \/ KeyDown
    \/ KeyUp
    \/ KeyToggle
    \/ KeyAdd
    \/ KeyDelete
    \/ KeyOther
    \/ InsertEnter
    \/ InsertChar
    \/ InsertBackspace
    \/ InsertEsc

Spec == Init /\ [][Next]_vars

\* Line 129, 131: chrono::Utc::now() is read anew by every call of date(); between
\* two calls the calendar date may have moved on by a day.
Midnight ==
    /\ pc \in {"load", "setup", "loop"}
    /\ today < MaxMidnights
    /\ today' = today + 1
    /\ UNCHANGED <<pc, result, raw_mode, alt_screen, mouse_capture, input_mode,
                   input_text, day_offset, day_path, items, selected, key, events,
                   files, habits, date_format, stdout_buffer, arg, ret>>

\* The session with a clock that advances.
ClockNext == Next \/ Midnight

ClockSpec == Init /\ [][ClockNext]_vars

----------------------------------------------------------------------------
(* The program run several times from the shell on the same configuration. *)

\* How many times status or details is run before the session is opened.
MaxRuns == 2

\* The runs of status and details so far: how many they are, and what the last of
\* them read and printed, <<>> before the first.
Runs(count, last) == [tag |-> "cli", count |-> count, last |-> last]

\* The number of completed items, as status counts them.
Completed(its) == Cardinality({i \in 1..Len(its) : its[i].completed})

\* The decimal digits, as `{}` formats a usize.
Digits == <<"0", "1", "2", "3", "4", "5", "6", "7", "8", "9">>

RECURSIVE ToDecimal(_)
ToDecimal(n) ==
    IF n < 10 THEN <<Digits[n + 1]>>
    ELSE ToDecimal(n \div 10) \o <<Digits[(n % 10) + 1]>>

\* Lines 160-164: the line status prints for the items read,
\* println!("{} / {}", completed, total).
StatusOutput(its) ==
    ToDecimal(Completed(its)) \o <<" ", "/", " ">> \o ToDecimal(Len(its)) \o <<LF>>

\* Lines 176-178: the lines details prints for the items read, one println! per
\* item.
RECURSIVE DetailsOutput(_)
DetailsOutput(its) ==
    IF its = <<>> THEN <<>>
    ELSE to_string(Head(its)) \o <<LF>> \o DetailsOutput(Tail(its))

\* Lines 138-152 and the command `cmd`: create_dir_all, then read_items on
\* today's file, then the output; `?` returns early when one of them fails.
\* println! panics when stdout cannot be written: the run then ends with the
\* day-file as read_items left it and with `printed` characters of the output on
\* stdout, fewer than the whole.
RunCommand(cmd) ==
    /\ ret.count < MaxRuns
    /\ \E io \in IoOutcomes \cup {"dir"} :
         LET named == date(0, date_format)
             path == named.name
             r == IF io = "dir"
                  THEN [tag |-> "Err", items |-> <<>>, file |-> files[path]]
                  ELSE IF named.tag = "Panic"
                  THEN [tag |-> "Panic", items |-> <<>>, file |-> files[path]]
                  ELSE LoadOutcome(files, path, io)
             out == IF r.tag # "Ok" THEN <<>>
                    ELSE IF cmd = "status" THEN StatusOutput(r.items)
                    ELSE DetailsOutput(r.items)
         IN  /\ files' = [files EXCEPT ![path] = r.file]
             /\ \E printed \in 0..Len(out) :
                  ret' = Runs(ret.count + 1,
                              <<[cmd |-> cmd,
                                 tag |-> IF printed < Len(out) THEN "Panic"
                                         ELSE r.tag,
                                 items |-> r.items,
                                 out |-> SubSeq(out, 1, printed)]>>)
    /\ UNCHANGED <<pc, result, raw_mode, alt_screen, mouse_capture, input_mode,
                   input_text, day_offset, day_path, items, selected, key, events,
                   habits, date_format, stdout_buffer, today, arg>>

\* Lines 154-167: status.
RunStatus ==
    /\ pc = "shell"
    /\ RunCommand("status")

\* Lines 169-181: details.
RunDetails ==
    /\ pc = "shell"
    /\ RunCommand("details")

\* Lines 138-152 without a subcommand: create_dir_all, then tui() up to line 188,
\* where date() may panic.
RunTui ==
    /\ pc = "shell"
    /\ \E dir_ok \in BOOLEAN :
         IF ~dir_ok THEN Return("load")
         ELSE IF date(0, date_format).tag = "Panic" THEN Return("panic")
         ELSE pc' = "load" /\ result' = result
    /\ UNCHANGED <<raw_mode, alt_screen, mouse_capture, input_mode, input_text,
                   day_offset, day_path, items, selected, key, events, files,
                   habits, date_format, stdout_buffer, today, arg, ret>>

\* The shell before the first run: today's file is absent or one of the initial
\* files of at most one line, no other day has a file.
CliInit ==
    /\ pc = "shell"
    /\ result = "none"
    /\ raw_mode = FALSE
    /\ alt_screen = FALSE
    /\ mouse_capture = FALSE
    /\ stdout_buffer = NoCommand
    /\ input_mode = "Normal"
    /\ input_text = <<>>
    /\ day_offset = 0
    /\ today = 0
    /\ date_format \in DateFormats
    /\ day_path = date(0, date_format).name
    /\ items = <<>>
    /\ selected = None
    /\ key = Key("Normal", "none")
    /\ events = 0
    /\ \E f0 \in {f \in InitialFiles : Len(Lines(f.data)) <= 1} :
         files = [d \in Days |-> IF d = 0 THEN f0 ELSE NoFile]
    /\ habits \in HabitLists
    /\ arg = NoArg
    /\ ret = Runs(0, <<>>)

CliNext ==
    \/ RunStatus
    \/ RunDetails
    \/ RunTui
    \/ Next

CliSpec == CliInit /\ [][CliNext]_vars

----------------------------------------------------------------------------
(* Claims about the session, checked under Spec. *)

\* One line per item, in list order: marker, one space, the text; lines joined by
\* a newline.
EncodedList(its) ==
    Join([i \in 1..Len(its) |->
             (IF its[i].completed THEN <<"-", " ", "[", "x", "]", " ">>
                                  ELSE <<"-", " ", "[", " ", "]", " ">>)
                 \o its[i].text])

\* The step dispatches one of the day-change keys t, h, l of Normal mode.
DayChangeStep ==
    /\ events' = events + 1
    /\ key' \in {Key("Normal", "t"), Key("Normal", "h"), Key("Normal", "l")}

\* C1: on every day change whose flush succeeded, the file bound before the change
\* holds the list that was in memory before it, the flush did not touch the newly
\* bound file (it came before the path was recomputed), and the list loaded is read
\* from the disk as the flush left it.
C1_FlushBeforeDayChange ==
    [][ (DayChangeStep /\ (result' = "none" \/ day_path' # day_path))
        => /\ files'[day_path].exists
           /\ files'[day_path].data = EncodedList(items)
           /\ day_path' # day_path => files'[day_path'].data = files[day_path'].data
           /\ result' = "none" =>
                items' = read_items(IF day_path' = day_path
                                    THEN File(EncodedList(items))
                                    ELSE files[day_path'], habits).items ]_vars

\* C1 witness: the session moved from day 0 to day -1 after an item was added to
\* day 0's list, and day 0's file holds the edited list.
C1_Witness ==
    /\ key = Key("Normal", "h")
    /\ result = "none"
    /\ day_offset = -1
    /\ day_path = -1
    /\ files[0] = File(EncodedList(<<Item(<<"a">>, TRUE), Item(<<>>, FALSE)>>))

\* The keys whose handlers end with a flush of the list.
FlushKeys ==
    { Key("Normal", "x"), Key("Normal", "d"), Key("Insert", "Enter"),
      Key("Normal", "q") }

\* C2: after toggle, delete or insert-confirm was handled, and after the loop ended
\* on quit, the bound day-file holds the in-memory list, one line per item in order.
C2_FlushedAfterMutation ==
    (key \in FlushKeys /\ result \in {"none", "ok", "restore"})
        => /\ files[day_path].exists
           /\ files[day_path].data = EncodedList(items)

\* C2 witness: toggle with nothing selected on a list of one default item, whose
\* file the load had created empty: the flush wrote the item.
C2_Witness ==
    /\ key = Key("Normal", "x")
    /\ result = "none"
    /\ selected = None
    /\ items = <<Item(<<"a">>, FALSE)>>
    /\ files[day_path].data = EncodedList(items)

\* C3: in every state of the session the selection is None iff the list is empty,
\* and otherwise it is an index of the list.
C3_SelectionNoneIffEmpty ==
    /\ selected = None <=> items = <<>>
    /\ selected # None => selected[1] \in 0..(Len(items) - 1)

\* C4: when the add key has moved the session from Normal to Insert, the pending
\* text is empty.
C4_AddClearsPendingText ==
    key = Key("Normal", "a") => input_text = <<>>

\* C5: when tui() ends with the error of a failed I/O operation, the terminal has
\* been restored: raw mode is off and the alternate screen is left.
C5_RestoredOnError ==
    (pc = "exit" /\ result \in {"load", "io"}) => (~raw_mode /\ ~alt_screen)

\* C11: end to end.  A first load of a day without a file yields one incomplete
\* item per default; a toggle flips the flag of the selected item and of no other
\* and leaves the file holding the list, one line per item; reloading the same
\* day then yields as many items, in the same order, with the same flags.
C11_EndToEnd ==
    [][ /\ (pc = "load" /\ pc' = "setup" /\ ~files[day_path].exists)
            => items' = [i \in 1..Len(habits) |-> Item(habits[i], FALSE)]
        /\ (events' = events + 1 /\ key' = Key("Normal", "x") /\ selected # None)
            => /\ Len(items') = Len(items)
               /\ \A i \in 1..Len(items) :
                     /\ items'[i].text = items[i].text
                     /\ items'[i].completed =
                          (IF i = selected[1] + 1 THEN ~items[i].completed
                                                  ELSE items[i].completed)
               /\ result' = "none" => files'[day_path].data = EncodedList(items')
        /\ (DayChangeStep /\ day_path' = day_path /\ result' = "none")
            => /\ Len(items') = Len(items)
               /\ \A i \in 1..Len(items) : items'[i].completed = items[i].completed
               /\ files'[day_path].data = EncodedList(items) ]_vars

\* C12: after every key event the bound path is the one date() gives for day_offset;
\* h decreases day_offset by one, l increases it by one, t sets it to 0, and no
\* other key changes day_offset or the bound path.
C12_PathFollowsDayOffset ==
    [][ (events' = events + 1 /\ result' = "none")
            => /\ day_path' = (date(day_offset, date_format).name)'
               /\ key' = Key("Normal", "h") => day_offset' = day_offset - 1
               /\ key' = Key("Normal", "l") => day_offset' = day_offset + 1
               /\ key' = Key("Normal", "t") => day_offset' = 0
               /\ ~DayChangeStep => /\ day_offset' = day_offset
                                    /\ day_path' = day_path ]_vars

\* C13: d with selection i on a list of length n removes the item at index i and
\* keeps the others in order; the selection becomes None when the list is now
\* empty, the last index when i was 0, and i - 1 otherwise.
C13_DeletePolicy ==
    [][ (events' = events + 1 /\ key' = Key("Normal", "d") /\ selected # None)
            => LET i == selected[1]
                   n == Len(items)
               IN  /\ i < n
                   /\ Len(items') = n - 1
                   /\ \A j \in 1..(n - 1) :
                         items'[j] = (IF j <= i THEN items[j] ELSE items[j + 1])
                   /\ selected' = (IF n = 1 THEN None
                                   ELSE IF i = 0 THEN Some(n - 2)
                                   ELSE Some(i - 1)) ]_vars

\* C13 witness: index 2 of the three-item list was deleted; the first two items
\* are left and the selection is Some(1).
C13_Witness ==
    /\ key = Key("Normal", "d")
    /\ result = "none"
    /\ events = 2
    /\ items = <<Item(<<"a">>, FALSE), Item(<<"a">>, TRUE)>>
    /\ selected = Some(1)

\* The selection after k presses of j, and after k presses of k, on the list `its`.
RECURSIVE DownTimes(_, _, _)
DownTimes(its, sel, k) ==
    IF k = 0 THEN sel ELSE DownTimes(its, SelectDown(its, sel), k - 1)

RECURSIVE UpTimes(_, _, _)
UpTimes(its, sel, k) ==
    IF k = 0 THEN sel ELSE UpTimes(its, SelectUp(its, sel), k - 1)

\* The navigation laws at the list `its` and the selection `sel`.
NavigationLaws(its, sel) ==
    LET n == Len(its)
    IN  /\ (n >= 1 /\ sel # None)
            => /\ DownTimes(its, sel, n) = sel
               /\ UpTimes(its, sel, n) = sel
               /\ SelectUp(its, SelectDown(its, sel)) = sel
               /\ SelectDown(its, SelectUp(its, sel)) = sel
               /\ sel = Some(n - 1) => SelectDown(its, sel) = Some(0)
               /\ sel = Some(0) => SelectUp(its, sel) = Some(n - 1)
        /\ n = 0 => SelectDown(its, sel) = sel /\ SelectUp(its, sel) = sel

\* C14: on a list of n >= 1 items with a selection, n presses of j and n presses
\* of k return to it, j then k is the identity, the selection wraps between n - 1
\* and 0; on an empty list j and k change nothing; j and k never fail and never
\* change the items or a file.
C14_NavigationWraps ==
    [][ /\ NavigationLaws(items, selected)
        /\ NavigationLaws(items', selected')
        /\ (events' = events + 1 /\ key' \in {Key("Normal", "j"), Key("Normal", "k")})
            => /\ selected' = (IF key' = Key("Normal", "j")
                               THEN DownTimes(items, selected, 1)
                               ELSE UpTimes(items, selected, 1))
               /\ items' = items
               /\ files' = files
               /\ pc' = "loop"
               /\ result' = "none" ]_vars

\* C14 witness: the fourth key was j and the selection is on index 0 of the
\* three-item list.
C14_Witness ==
    /\ key = Key("Normal", "j")
    /\ events = 4
    /\ Len(items) = 3
    /\ selected = Some(0)
    /\ DownTimes(items, selected, 3) = selected

\* The step dispatches Enter in Insert mode.
ConfirmStep == events' = events + 1 /\ key' = Key("Insert", "Enter")

\* C15: Enter on an empty list makes the selection Some(0), Enter on a non-empty
\* list leaves the selection unchanged.
C15_PushSelectsFirst ==
    [][ ConfirmStep
            => selected' = (IF items = <<>> THEN Some(0) ELSE selected) ]_vars

\* C16: Enter appends one item at the end, incomplete and with the whole pending
\* text (also an empty one), leaves the earlier items in place, empties the pending
\* text and returns to Normal mode.
C16_ConfirmAppends ==
    [][ ConfirmStep
            => /\ Len(items') = Len(items) + 1
               /\ \A i \in 1..Len(items) : items'[i] = items[i]
               /\ items'[Len(items')].text = input_text
               /\ items'[Len(items')].completed = FALSE
               /\ input_text' = <<>>
               /\ input_mode' = "Normal" ]_vars

\* C16 witness: "qa" was typed and confirmed on a day with the one habit "a".
C16_Witness ==
    /\ key = Key("Insert", "Enter")
    /\ result = "none"
    /\ items = <<Item(<<"a">>, FALSE), Item(<<"q", "a">>, FALSE)>>
    /\ input_text = <<>>
    /\ input_mode = "Normal"

\* C17: in Insert mode only Enter changes the items or a file.  Every other key of
\* Insert mode leaves the items, the selection, day_offset, the bound path and the
\* files unchanged and does not end the loop; a character, also one that is a
\* command of Normal mode, is appended to the pending text; Backspace drops the
\* last character and does nothing on an empty text; Esc returns to Normal mode.
C17_InsertFrame ==
    [][ /\ (input_mode = "Insert" /\ (items' # items \/ files' # files))
            => ConfirmStep
        /\ (events' = events + 1 /\ key'[1] = "Insert" /\ key'[2] # "Enter")
            => /\ UNCHANGED <<items, selected, day_offset, day_path, files>>
               /\ pc' = "loop"
               /\ result' = "none"
               /\ key'[2] \in TypedChars
                    => /\ input_text' = input_text \o <<key'[2]>>
                       /\ input_mode' = "Insert"
               /\ key'[2] = "Backspace"
                    => /\ Len(input_text') = (IF input_text = <<>> THEN 0
                                              ELSE Len(input_text) - 1)
                       /\ \A i \in 1..Len(input_text') : input_text'[i] = input_text[i]
                       /\ input_mode' = "Insert"
               /\ key'[2] = "Esc" => input_mode' = "Normal"
               /\ key'[2] = "other"
                    => UNCHANGED <<input_text, input_mode>> ]_vars

\* C17 witness: q was typed in Insert mode: the loop goes on, in Insert mode, with
\* q at the end of the pending text.
C17_Witness ==
    /\ key = Key("Insert", "q")
    /\ pc = "loop"
    /\ input_mode = "Insert"
    /\ input_text = <<"a", "q">>

\* C18: whenever the selection is Some(i), i is an index of the list, so that
\* items[i] of x and items.remove(i) of d are in range.
C18_SelectedIndexInRange ==
    selected # None => selected[1] + 1 \in DOMAIN items

\* C18 witness: with index 2 of today's three items selected the previous day was
\* opened, whose list has one item, and j selected its index 0.
C18_Witness ==
    /\ key = Key("Normal", "j")
    /\ events = 3
    /\ day_offset = -1
    /\ Len(Lines(files[today].data)) = 3
    /\ Len(items) = 1
    /\ selected = Some(0)

\* C19: status and details are repeatable.  A run that succeeds right after a run
\* that succeeded reads the same items, with the same total and completed counts,
\* and a session opened after a successful run loads the items that run read.
C19_StatusRepeatable ==
    [][ /\ ( /\ ret'.count = ret.count + 1
             /\ ret.last # <<>>
             /\ ret.last[1].tag = "Ok"
             /\ ret'.last[1].tag = "Ok" )
                => /\ ret'.last[1].items = ret.last[1].items
                   /\ StatusOutput(ret'.last[1].items)
                        = StatusOutput(ret.last[1].items)
        /\ ( /\ pc = "load"
             /\ pc' = "setup"
             /\ ret.last # <<>>
             /\ ret.last[1].tag = "Ok" )
                => items' = ret.last[1].items ]_vars

\* A day change that succeeds, from the list `its` bound to the day `from` on the
\* disk `disk`, to the day `to`: write_items to `from`, then read_items of `to`.
DayStep(its, disk, from, to) ==
    LET flushed == [disk EXCEPT ![from] = write_items(its)]
        r == read_items(flushed[to], habits)
    IN  [tag |-> r.tag, items |-> r.items, files |-> [flushed EXCEPT ![to] = r.file]]

\* No text of the list ends with a carriage return.
NoTrailingCR(its) == \A i \in 1..Len(its) : StripCR(its[i].text) = its[i].text

\* A day-change key that succeeds is the DayStep from the bound day to the day of
\* the new offset.
DayChangeIsDayStep ==
    (DayChangeStep /\ result' = "none")
        => LET step == DayStep(items, files, day_path, date(day_offset', date_format).name)
           IN  /\ items' = step.items
               /\ files' = step.files
               /\ day_path' = date(day_offset', date_format).name
               /\ selected' = None

\* The step is h or l and succeeds.
PrevOrNextStep ==
    /\ events' = events + 1
    /\ key' \in {Key("Normal", "h"), Key("Normal", "l")}
    /\ result' = "none"

\* After the step, the opposite key, which opens the day of the offset before the
\* step, succeeds when its I/O does and brings back the items before the step.
OppositeKeyBringsItemsBack ==
    LET back == DayStep(items', files', day_path', date(day_offset, date_format).name)
    IN  back.tag = "Ok" /\ back.items = items

\* C20 as stated: with the date fixed, h then l, and l then h, leave the items as
\* they were, for every list the session reaches.
C20_PrevNextKeepsItems ==
    [][ /\ DayChangeIsDayStep
        /\ PrevOrNextStep => OppositeKeyBringsItemsBack ]_vars

\* C20 amended: the same, for lists in which no text ends with a carriage return.
C20_PrevNextKeepsItemsNoCR ==
    [][ /\ DayChangeIsDayStep
        /\ (PrevOrNextStep /\ NoTrailingCR(items)) => OppositeKeyBringsItemsBack ]_vars

\* C20 witness: h and then l were pressed on a day seeded from the defaults "s"
\* and "r": the list is the seeded one again and nothing is selected.
C20_Witness ==
    /\ key = Key("Normal", "l")
    /\ events = 2
    /\ result = "none"
    /\ day_offset = 0
    /\ items = <<Item(<<"s">>, FALSE), Item(<<"r">>, FALSE)>>
    /\ date_format = "%Y-%m-%d"
    /\ files[date(-1, date_format).name].exists
    /\ selected = None

\* C11 witness: with the defaults "s" and "r" and no file, item 0 was toggled and
\* the day reloaded: "s" is completed, "r" is not, and the file holds both lines.
C11_Witness ==
    /\ key = Key("Normal", "t")
    /\ result = "none"
    /\ habits = << <<"s">>, <<"r">> >>
    /\ items = <<Item(<<"s">>, TRUE), Item(<<"r">>, FALSE)>>
    /\ files[day_path].data =
         <<"-", " ", "[", "x", "]", " ", "s", LF, "-", " ", "[", " ", "]", " ", "r">>

----------------------------------------------------------------------------
(* Claims about the codec and the store, checked under StoreSpec. *)

\* The line starts with a marker and the separating space.
HasPrefix(l) ==
    \/ StartsWith(l, <<"-", " ", "[", " ", "]", " ">>)
    \/ StartsWith(l, <<"-", " ", "[", "x", "]", " ">>)

\* The item a line with the six-character prefix stands for.
Decoded(l) == Item(SubSeq(l, 7, Len(l)), l[4] = "x")

\* C6: from_str fails with a parse error on every line without the six-character
\* prefix, and returns the marker's flag and the whole remainder on every other.
C6_DecodeChecksPrefix ==
    (arg.op = "from_str" /\ ret.tag # "none")
        => IF HasPrefix(arg.line)
           THEN ret = Ok(Decoded(arg.line))
           ELSE ret.tag = "Err"

\* The lines of `ls` that have the six-character prefix, decoded, in order.
DecodedLines(ls) ==
    LET good == SelectSeq(ls, HasPrefix)
    IN  [i \in 1..Len(good) |-> Decoded(good[i])]

\* C7: read_items never aborts: it returns the decodable lines as items, in file
\* order (after the defaults of an absent file), and skips the others.
C7_LoadNeverAborts ==
    (arg.op = "read_items" /\ ret.tag # "none")
        => /\ ret.tag = "Ok"
           /\ ret.items =
                (IF arg.file.exists THEN <<>>
                 ELSE [i \in 1..Len(arg.defaults) |-> Item(arg.defaults[i], FALSE)])
                    \o DecodedLines(Lines(arg.file.data))

\* The text holds no newline.
NoNewline(text) == \A i \in 1..Len(text) : text[i] # LF

\* C8: for an item whose text holds no newline, from_str(to_string(item)) is Ok
\* and is the item.
C8_RoundTrip ==
    (arg.op = "round_trip" /\ ret.tag # "none" /\ NoNewline(arg.item.text))
        => ret = Ok(arg.item)

\* C8 witness: a completed item with the empty text came back from the round trip.
C8_Witness ==
    /\ arg.op = "round_trip"
    /\ arg.item = Item(<<>>, TRUE)
    /\ ret.tag = "Ok"

\* The list is not empty and no text of it holds a newline.
Savable(its) == its # <<>> /\ \A i \in 1..Len(its) : NoNewline(its[i].text)

\* The text ends with a carriage return.
EndsWithCR(text) == text # <<>> /\ text[Len(text)] = CR

\* C9 as stated: write_items and then read_items returns exactly the items, for
\* every non-empty list of texts without newline and every list of defaults.
C9_SaveLoad ==
    (arg.op = "write_read" /\ ret.tag # "none" /\ Savable(arg.items))
        => (ret.tag = "Ok" /\ ret.items = arg.items)

\* C9 amended: the same, for lists in which no text ends with a carriage return.
C9_SaveLoadNoCR ==
    ( /\ arg.op = "write_read"
      /\ ret.tag # "none"
      /\ Savable(arg.items)
      /\ \A i \in 1..Len(arg.items) : ~EndsWithCR(arg.items[i].text) )
        => (ret.tag = "Ok" /\ ret.items = arg.items)

\* C9 witness: two items, a completed one and one with the empty text, came back
\* unchanged with defaults configured.
C9_Witness ==
    /\ arg.op = "write_read"
    /\ Len(arg.items) = 2
    /\ arg.items[1] = Item(<<"a">>, TRUE)
    /\ arg.items[2] = Item(<<>>, FALSE)
    /\ arg.defaults # <<>>
    /\ ret.tag = "Ok"
    /\ ret.items = arg.items

\* C10: a read_items that returns gives, on an absent path, one incomplete item per
\* default in order and leaves the path an empty file; on an existing file, the
\* items of its decodable lines, no default, and the file as it was.
C10_DefaultsOnlyWhenAbsent ==
    (arg.op = "read_items" /\ ret.tag = "Ok")
        => IF ~arg.file.exists
           THEN /\ ret.items =
                     [i \in 1..Len(arg.defaults) |-> Item(arg.defaults[i], FALSE)]
                /\ ret.file = File(<<>>)
           ELSE /\ ret.items = DecodedLines(Lines(arg.file.data))
                /\ ret.file = arg.file

\* C10 witness: two defaults were returned for an absent path, which now exists.
C10_Witness ==
    /\ arg.op = "read_items"
    /\ ~arg.file.exists
    /\ Len(arg.defaults) = 2
    /\ ret.tag = "Ok"
    /\ Len(ret.items) = 2
    /\ ret.file.exists

====
